---- MODULE Spec2Model ----
(***************************************************************************)
(* State machine of the TicTacToe component                                *)
(* (src/src/components/TicTacToe.tsx): the React state object gameState,   *)
(* the pending setTimeout of the computer-move effect together with the    *)
(* render closure it captured, and the handlers handleCellClick,           *)
(* resetGame, resetScore and setGameMode.                                  *)
(***************************************************************************)
EXTENDS Integers, Sequences, FiniteSets, TLC

VARIABLES
    gameState,   \* the committed React state (useState<GameState>)
    timer,       \* set of pending setTimeout callbacks, each the gameState its closure captured
    mounted,     \* TRUE while the component is mounted
    timerEvent,  \* observation: whether the last event fired or cancelled the timeout
    computerMove, \* observation: the computerMove of the callback the last event ran
    script       \* observation: how many events of Scenario were delivered in a row
                 \* since a fresh session (-1 when the run left the scenario)

vars == <<gameState, timer, mounted, timerEvent, computerMove, script>>

-----------------------------------------------------------------------------
\* Bounds

MaxScore == 1          \* score counters are capped here (guards of the move actions)
RandDen == 4           \* Math.random() is drawn from {0/RandDen, ..., (RandDen-1)/RandDen}
MinIndex == 0 - 1      \* smallest cell index a move event is tried with
MaxIndex == 9          \* largest cell index a move event is tried with

-----------------------------------------------------------------------------
\* Types (lines 8-19)

Null == "null"
Undefined == "undefined"
Player == {"X", "O", Null}
GameMode == {"player", "computer"}
GameStatus == {"playing", "won", "draw"}
Cells == 0..8
UndefinedIndex == MinIndex - 1    \* an index that is the JS value undefined
NoIndex == MinIndex - 2           \* computerMove when the last event ran no timer callback

EmptyBoard == [i \in Cells |-> Null]
ZeroScore == [x |-> 0, o |-> 0, draws |-> 0]

InitialGameState ==
    [board |-> EmptyBoard,
     currentPlayer |-> "X",
     gameStatus |-> "playing",
     winner |-> Null,
     gameMode |-> "player",
     score |-> ZeroScore]

\* board[index] as JavaScript evaluates it: undefined outside the array
Cell(board, index) == IF index \in Cells THEN board[index] ELSE Undefined

-----------------------------------------------------------------------------
\* Rules (lines 34-60)

\* mutant: the first column is mistyped
winningCombinations_Typo ==
    << <<0, 1, 2>>, <<3, 4, 5>>, <<6, 7, 8>>,
       <<0, 3, 5>>, <<1, 4, 7>>, <<2, 5, 8>>,
       <<0, 4, 8>>, <<2, 4, 6>> >>

winningCombinations ==
    << <<0, 1, 2>>, <<3, 4, 5>>, <<6, 7, 8>>,
       <<0, 3, 6>>, <<1, 4, 7>>, <<2, 5, 8>>,
       <<0, 4, 8>>, <<2, 4, 6>> >>

RECURSIVE checkWinnerFrom(_, _)
checkWinnerFrom(board, k) ==
    IF k > Len(winningCombinations) THEN Null
    ELSE LET a == winningCombinations[k][1]
             b == winningCombinations[k][2]
             c == winningCombinations[k][3]
         IN IF board[a] # Null /\ board[a] = board[b] /\ board[a] = board[c]
            THEN board[a]
            ELSE checkWinnerFrom(board, k + 1)

\* mutant: the test that board[a] is a mark is dropped
checkWinner_NoNullTest(board) ==
    LET equal == {k \in 1..Len(winningCombinations) :
                     /\ board[winningCombinations[k][1]] = board[winningCombinations[k][2]]
                     /\ board[winningCombinations[k][1]] = board[winningCombinations[k][3]]}
    IN IF equal = {} THEN Null
       ELSE board[winningCombinations[CHOOSE k \in equal : \A h \in equal : k <= h][1]]

checkWinner(board) == checkWinnerFrom(board, 1)

isBoardFull(board) == \A i \in Cells : board[i] # Null

getAvailableMoves(board) ==
    SelectSeq(<<0, 1, 2, 3, 4, 5, 6, 7, 8>>, LAMBDA i : board[i] = Null)

-----------------------------------------------------------------------------
\* Computer strategy (lines 63-93)

\* list[Math.floor(Math.random() * list.length)] with Math.random() = r / RandDen
randomElement(list, r) ==
    IF Len(list) = 0 THEN UndefinedIndex
    ELSE list[((r * Len(list)) \div RandDen) + 1]

\* one pass of a "two of mark and the third free" loop, from combination k on;
\* UndefinedIndex when the loop falls through
RECURSIVE completeFrom(_, _, _)
completeFrom(board, mark, k) ==
    IF k > Len(winningCombinations) THEN UndefinedIndex
    ELSE LET a == winningCombinations[k][1]
             b == winningCombinations[k][2]
             c == winningCombinations[k][3]
         IN IF board[a] = mark /\ board[b] = mark /\ board[c] = Null THEN c
            ELSE IF board[a] = mark /\ board[c] = mark /\ board[b] = Null THEN b
            ELSE IF board[b] = mark /\ board[c] = mark /\ board[a] = Null THEN a
            ELSE completeFrom(board, mark, k + 1)

corners == <<0, 2, 6, 8>>

availableCorners(board) == SelectSeq(corners, LAMBDA corner : board[corner] = Null)

\* mutant: the corners are not filtered for free cells
getComputerMove_AnyCorner(board, r) ==
    LET win == completeFrom(board, "O", 1)
        block == completeFrom(board, "X", 1)
    IN IF win # UndefinedIndex THEN win
       ELSE IF block # UndefinedIndex THEN block
       ELSE IF board[4] = Null THEN 4
       ELSE randomElement(corners, r)

\* mutant: the block loop runs before the win loop
getComputerMove_BlockFirst(board, r) ==
    LET win == completeFrom(board, "O", 1)
        block == completeFrom(board, "X", 1)
    IN IF block # UndefinedIndex THEN block
       ELSE IF win # UndefinedIndex THEN win
       ELSE IF board[4] = Null THEN 4
       ELSE IF Len(availableCorners(board)) > 0
            THEN randomElement(availableCorners(board), r)
            ELSE randomElement(getAvailableMoves(board), r)

\* mutant: the corners are tried before the center
getComputerMove_CornerFirst(board, r) ==
    LET win == completeFrom(board, "O", 1)
        block == completeFrom(board, "X", 1)
    IN IF win # UndefinedIndex THEN win
       ELSE IF block # UndefinedIndex THEN block
       ELSE IF Len(availableCorners(board)) > 0
            THEN randomElement(availableCorners(board), r)
            ELSE IF board[4] = Null THEN 4
            ELSE randomElement(getAvailableMoves(board), r)

\* mutant: with the center taken, a free edge is preferred to a free corner
getComputerMove_EdgeFirst(board, r) ==
    LET win == completeFrom(board, "O", 1)
        block == completeFrom(board, "X", 1)
        availableEdges == SelectSeq(<<1, 3, 5, 7>>, LAMBDA edge : board[edge] = Null)
    IN IF win # UndefinedIndex THEN win
       ELSE IF block # UndefinedIndex THEN block
       ELSE IF board[4] = Null THEN 4
       ELSE IF Len(availableEdges) > 0
            THEN randomElement(availableEdges, r)
            ELSE randomElement(getAvailableMoves(board), r)

getComputerMove(board, r) ==
    LET win == completeFrom(board, "O", 1)
        block == completeFrom(board, "X", 1)
    IN IF win # UndefinedIndex THEN win
       ELSE IF block # UndefinedIndex THEN block
       ELSE IF board[4] = Null THEN 4
       ELSE IF Len(availableCorners(board)) > 0
            THEN randomElement(availableCorners(board), r)
            ELSE randomElement(getAvailableMoves(board), r)

-----------------------------------------------------------------------------
\* handleCellClick (lines 96-135).  gs is the gameState of the render whose
\* closure runs the handler, prev is the committed state the updater receives.

\* mutant: the guard forgets the game status
Rejected_NoStatusCheck(gs, index) == Cell(gs.board, index) # Null

\* mutant: the guard forgets that the cell may be taken
Rejected_NoCellCheck(gs, index) ==
    Cell(gs.board, index) = Undefined \/ gs.gameStatus # "playing"

Rejected(gs, index) ==
    Cell(gs.board, index) # Null \/ gs.gameStatus # "playing"

newBoardOf(gs, index) == [gs.board EXCEPT ![index] = gs.currentPlayer]

\* mutant: the full board is tested before the winner
newGameStatusOf_FullFirst(winner, newBoard) ==
    IF isBoardFull(newBoard) THEN "draw"
    ELSE IF winner # Null THEN "won"
    ELSE "playing"

newGameStatusOf(winner, newBoard) ==
    IF winner # Null THEN "won"
    ELSE IF isBoardFull(newBoard) THEN "draw"
    ELSE "playing"

newScoreOf(gs, winner, newBoard) ==
    IF winner # Null
    THEN IF winner = "X"
         THEN [gs.score EXCEPT !.x = @ + 1]
         ELSE [gs.score EXCEPT !.o = @ + 1]
    ELSE IF isBoardFull(newBoard)
         THEN [gs.score EXCEPT !.draws = @ + 1]
         ELSE gs.score

handleCellClick(gs, prev, index) ==
    IF Rejected(gs, index) THEN prev
    ELSE LET newBoard == newBoardOf(gs, index)
             winner == checkWinner(newBoard)
         IN [prev EXCEPT
                !.board = newBoard,
                !.currentPlayer = IF gs.currentPlayer = "X" THEN "O" ELSE "X",
                !.gameStatus = newGameStatusOf(winner, newBoard),
                !.winner = winner,
                !.score = newScoreOf(gs, winner, newBoard)]

-----------------------------------------------------------------------------
\* Computer move effect (lines 138-150)

\* mutant: currentPlayer is missing from the dependency list
effectDeps_NoPlayer(gs) == <<gs.gameMode, gs.gameStatus>>

effectDeps(gs) == <<gs.currentPlayer, gs.gameMode, gs.gameStatus>>

effectCondition(gs) ==
    gs.gameMode = "computer" /\ gs.currentPlayer = "O" /\ gs.gameStatus = "playing"

\* The timers pending after the render of new: the effect is left alone while
\* its dependencies are unchanged; otherwise its cleanup clears the timer and
\* the effect body may set a new one that captures the new render.
\* mutant: the effect returns no cleanup, a timeout once set stays pending
useEffectTimer_NoCleanup(old, new, pending) ==
    IF effectDeps(old) = effectDeps(new) THEN pending
    ELSE IF effectCondition(new) THEN {new}
    ELSE pending

useEffectTimer(old, new, pending) ==
    IF effectDeps(old) = effectDeps(new) THEN pending
    ELSE IF effectCondition(new) THEN {new}
    ELSE {}

-----------------------------------------------------------------------------
\* Handlers of the other view events (lines 153-181)

\* mutant: the reset leaves the turn where it was
resetGame_KeepsTurn(prev) ==
    [prev EXCEPT !.board = EmptyBoard, !.gameStatus = "playing", !.winner = Null]

\* mutant: the reset also clears the score
resetGame_ClearsScore(prev) ==
    [prev EXCEPT !.board = EmptyBoard, !.currentPlayer = "X",
                 !.gameStatus = "playing", !.winner = Null, !.score = ZeroScore]

resetGame(prev) ==
    [prev EXCEPT !.board = EmptyBoard, !.currentPlayer = "X",
                 !.gameStatus = "playing", !.winner = Null]

\* mutant: the draws counter is forgotten
resetScore_KeepsDraws(prev) == [prev EXCEPT !.score.x = 0, !.score.o = 0]

resetScore(prev) == [prev EXCEPT !.score = ZeroScore]

\* mutant: the mode is switched without a fresh board
setGameMode_KeepsBoard(prev, mode) == [prev EXCEPT !.gameMode = mode]

setGameMode(prev, mode) ==
    [prev EXCEPT !.gameMode = mode, !.board = EmptyBoard, !.currentPlayer = "X",
                 !.gameStatus = "playing", !.winner = Null]

-----------------------------------------------------------------------------
\* Observation of the scenario of spec section 8 (second scenario)

Scenario == <<0, 1, 2, 4, 3, 5, 6, 8, 7>>

Fresh(gs) ==
    /\ gs.board = EmptyBoard
    /\ gs.currentPlayer = "X"
    /\ gs.gameStatus = "playing"
    /\ gs.score = ZeroScore

scriptAfterMove(index) ==
    IF script >= 0 /\ script < Len(Scenario) /\ index = Scenario[script + 1]
    THEN script + 1
    ELSE 0 - 1

scriptAfterOther(new) == IF Fresh(new) THEN 0 ELSE 0 - 1

WithinCap(gs) ==
    gs.score.x <= MaxScore /\ gs.score.o <= MaxScore /\ gs.score.draws <= MaxScore

-----------------------------------------------------------------------------
\* Specification

TypeOK ==
    /\ gameState.board \in [Cells -> Player]
    /\ gameState.currentPlayer \in {"X", "O"}
    /\ gameState.gameStatus \in GameStatus
    /\ gameState.winner \in Player
    /\ gameState.gameMode \in GameMode
    /\ WithinCap(gameState)
    /\ Cardinality(timer) <= 1
    /\ mounted \in BOOLEAN
    /\ timerEvent \in {"none", "fired", "cancelled"}
    /\ computerMove \in (Cells \cup {NoIndex})

Init ==
    /\ gameState = InitialGameState
    /\ timer = useEffectTimer(InitialGameState, InitialGameState, {})
    /\ mounted = TRUE
    /\ timerEvent = "none"
    /\ computerMove = NoIndex
    /\ script = 0

\* whether an event that found the timeouts before and left the timeouts
\* after cleared a pending one
timerEventOf(before, after) ==
    IF before # {} /\ after # before THEN "cancelled" ELSE "none"

\* a view event that replaces the state by new, and the render after it
ViewEvent(new) ==
    /\ mounted
    /\ gameState' = new
    /\ WithinCap(gameState')
    /\ timer' = useEffectTimer(gameState, gameState', timer)
    /\ timerEvent' = timerEventOf(timer, timer')
    /\ computerMove' = NoIndex
    /\ UNCHANGED mounted

\* a click on a cell of the view (line 257)
CellClick(index) ==
    /\ ViewEvent(handleCellClick(gameState, gameState, index))
    /\ script' = scriptAfterMove(index)

\* the setTimeout callback of the effect runs (lines 143-146)
TimerFires ==
    /\ \E closure \in timer, r \in 0..(RandDen - 1) :
         LET move == getComputerMove(closure.board, r)
         IN /\ gameState' = handleCellClick(closure, gameState, move)
            /\ WithinCap(gameState')
            /\ timer' = useEffectTimer(gameState, gameState', {})
            /\ computerMove' = move
            /\ script' = scriptAfterMove(move)
    /\ timerEvent' = "fired"
    /\ UNCHANGED mounted

ResetGame ==
    /\ ViewEvent(resetGame(gameState))
    /\ script' = scriptAfterOther(gameState')

ResetScore ==
    /\ ViewEvent(resetScore(gameState))
    /\ script' = scriptAfterOther(gameState')

SetGameMode(mode) ==
    /\ ViewEvent(setGameMode(gameState, mode))
    /\ script' = scriptAfterOther(gameState')

\* the component unmounts: the effect's cleanup clears the timeout (line 148)
\* and the state object is released with the component (the model keeps the
\* value a later mount would start from)
Unmount ==
    /\ mounted
    /\ mounted' = FALSE
    /\ timer' = {}
    /\ timerEvent' = timerEventOf(timer, timer')
    /\ gameState' = InitialGameState
    /\ computerMove' = NoIndex
    /\ script' = 0 - 1

Next ==
    \/ \E index \in MinIndex..MaxIndex : CellClick(index)
    \/ TimerFires
    \/ ResetGame
    \/ ResetScore
    \/ \E mode \in GameMode : SetGameMode(mode)
    \/ Unmount

Spec == Init /\ [][Next]_vars

-----------------------------------------------------------------------------
\* The browser runs a timeout that stays pending: weak fairness of the
\* callback (lines 143-146)
\* (TimerFires, with the test that tells its steps from the others first)
TimeoutRuns == timerEvent' = "fired" /\ TimerFires

\* The callback of a pending timeout can run: ENABLED <<TimeoutRuns>>_vars,
\* computed from the closure as TimerFires computes its step.
CanFire ==
    \E closure \in timer, r \in 0..(RandDen - 1) :
       WithinCap(handleCellClick(closure, gameState,
                                 getComputerMove(closure.board, r)))

\* WF_vars(TimeoutRuns), with its ENABLED written as CanFire
TimeoutFairness == ([]<>~CanFire) \/ ([]<><<TimeoutRuns>>_vars)

SpecFair == Spec /\ TimeoutFairness

-----------------------------------------------------------------------------

\* Specification of the sessions in which the human, when playing against
\* the computer, clicks only on X's turn and only along one line of play: a
\* free corner on the empty board, then a completing cell if there is one,
\* else a blocking cell if O threatens, else the corner opposite to an own
\* corner.  The clicks are those of the cell buttons (lines 253-258); in
\* two-player mode they are free, and everything else is as in Spec.

humanMoves(board) ==
    LET free == {c \in Cells : board[c] = Null}
        wins == {c \in free : checkWinner([board EXCEPT ![c] = "X"]) = "X"}
        blocks == {c \in free : checkWinner([board EXCEPT ![c] = "O"]) = "O"}
        own == {c \in {0, 2, 6, 8} : board[c] = "X"}
    IN IF wins # {} THEN wins
       ELSE IF blocks # {} THEN blocks
       ELSE IF own = {} THEN free \cap {0, 2, 6, 8}
       ELSE free \cap {8 - c : c \in own}

HumanToMove ==
    /\ mounted
    /\ gameState.gameMode = "computer"
    /\ gameState.gameStatus = "playing"
    /\ gameState.currentPlayer = "X"

ClickAllowed(index) ==
    gameState.gameMode = "computer" =>
       /\ gameState.currentPlayer = "X"
       /\ index \in humanMoves(gameState.board)

HumanClick ==
    \E index \in MinIndex..MaxIndex : ClickAllowed(index) /\ CellClick(index)

NextFork ==
    \/ HumanClick
    \/ TimerFires
    \/ ResetGame
    \/ ResetScore
    \/ \E mode \in GameMode : SetGameMode(mode)
    \/ Unmount

SpecFork == Init /\ [][NextFork]_vars

-----------------------------------------------------------------------------

\* Specification of the computer strategy as a function: getComputerMove is
\* applied once to an arbitrary board (lines 63-93)

InitStrategy ==
    /\ gameState \in {[InitialGameState EXCEPT !.board = b,
                                               !.gameMode = "computer",
                                               !.currentPlayer = "O"] :
                         b \in [Cells -> Player]}
    /\ timer = {}
    /\ mounted = TRUE
    /\ timerEvent = "none"
    /\ computerMove = NoIndex
    /\ script = 0 - 1

GetComputerMove ==
    /\ computerMove = NoIndex
    /\ \E r \in 0..(RandDen - 1) : computerMove' = getComputerMove(gameState.board, r)
    /\ UNCHANGED <<gameState, timer, mounted, timerEvent, script>>

NextStrategy == GetComputerMove

SpecStrategy == InitStrategy /\ [][NextStrategy]_vars

-----------------------------------------------------------------------------
\* Specification of the rules as a function: checkWinner is applied once to
\* an arbitrary board (lines 41-49); winner is undefined until it returned

InitRules ==
    /\ gameState \in {[InitialGameState EXCEPT !.board = b, !.winner = Undefined] :
                         b \in [Cells -> Player]}
    /\ timer = {}
    /\ mounted = TRUE
    /\ timerEvent = "none"
    /\ computerMove = NoIndex
    /\ script = 0 - 1

CheckWinner ==
    /\ gameState.winner = Undefined
    /\ gameState' = [gameState EXCEPT !.winner = checkWinner(gameState.board)]
    /\ UNCHANGED <<timer, mounted, timerEvent, computerMove, script>>

NextRules == CheckWinner

SpecRules == InitRules /\ [][NextRules]_vars

-----------------------------------------------------------------------------

\* Vocabulary of the properties

Marks == {"X", "O"}

Lines == {{0, 1, 2}, {3, 4, 5}, {6, 7, 8}, {0, 3, 6}, {1, 4, 7}, {2, 5, 8},
          {0, 4, 8}, {2, 4, 6}}

HasLine(board, mark) == \E l \in Lines : \A i \in l : board[i] = mark

HasEmpty(board) == \E i \in Cells : board[i] = Null

MarkCount(board) == Cardinality({i \in Cells : board[i] # Null})

\* this step placed mark on the empty cell index and touched no other cell
Placed(index, mark) ==
    /\ gameState.board[index] = Null
    /\ gameState'.board[index] = mark
    /\ \A other \in Cells \ {index} : gameState'.board[other] = gameState.board[other]

AcceptedMove == \E index \in Cells, mark \in Marks : Placed(index, mark)

\* this step is a move event: a click of the view or the timeout's callback
MoveEvent(index) ==
    \/ CellClick(index)
    \/ timerEvent' = "fired" /\ computerMove' = index

Bump(score, mark) ==
    IF mark = "X" THEN [score EXCEPT !.x = @ + 1] ELSE [score EXCEPT !.o = @ + 1]

Cleared(gs) ==
    /\ gs.board = EmptyBoard
    /\ gs.gameStatus = "playing"
    /\ gs.winner = Null
    /\ gs.currentPlayer = "X"

\* the board after the first k events of Scenario, marks alternating from X
ScenarioBoard(k) ==
    [i \in Cells |->
        IF \E j \in 1..k : Scenario[j] = i
        THEN IF (CHOOSE j \in 1..k : Scenario[j] = i) % 2 = 1 THEN "X" ELSE "O"
        ELSE Null]

-----------------------------------------------------------------------------
\* C1: a move event whose target cell is not empty, whose session is not
\* playing, or whose index is outside 0..8 changes nothing of gameState
\* (board, status, winner, turn, score and mode).
C1_InvalidMoveIsNoOp ==
    [][gameState' # gameState =>
          \A index \in (MinIndex - 1)..MaxIndex :
             (\/ index \notin Cells
              \/ gameState.board[index] # Null
              \/ gameState.gameStatus # "playing")
             => ~MoveEvent(index)]_vars

\* the last two events of Scenario reached a session that was already won
\* and left its seven marks alone
C1_Witness ==
    /\ script = 9
    /\ gameState.gameStatus = "won"
    /\ MarkCount(gameState.board) = 7

\* C2: an accepted move that completes a line of the mover ends in status
\* won with the mover as winner and the mover's counter one above the score
\* held just before the event, the other two counters unchanged.
C2_WinScoresOne ==
    [][\A index \in Cells, mark \in Marks :
          (Placed(index, mark) /\ HasLine(gameState'.board, mark))
          => /\ gameState'.gameStatus = "won"
             /\ gameState'.winner = mark
             /\ gameState'.score = Bump(gameState.score, mark)]_vars

\* C3 (as stated): the nine events of Scenario are all accepted, no line is
\* completed on the way, and the session ends drawn with draws = 1.
C3_ScenarioEndsDrawn ==
    /\ script >= 0 =>
          /\ MarkCount(gameState.board) = script
          /\ \A mark \in Marks : ~HasLine(gameState.board, mark)
    /\ script = 9 =>
          /\ gameState.gameStatus = "draw"
          /\ gameState.score.draws = 1

\* C3 (amended): the first seven events of Scenario are accepted; the
\* seventh (X at 6) completes the column 0,3,6, so the session is won by X
\* with score x = 1 and draws = 0, and the events at 8 and 7 are ignored.
C3_ScenarioEndsWon ==
    /\ script \in 0..6 =>
          /\ gameState.board = ScenarioBoard(script)
          /\ gameState.gameStatus = "playing"
          /\ gameState.score = ZeroScore
    /\ script \in 7..9 =>
          /\ gameState.board = ScenarioBoard(7)
          /\ gameState.gameStatus = "won"
          /\ gameState.winner = "X"
          /\ gameState.score = [x |-> 1, o |-> 0, draws |-> 0]

C3_Witness ==
    /\ script = 9
    /\ gameState.board = ScenarioBoard(7)
    /\ gameState.score.x = 1

\* C4: the status is a function of the board: won exactly when checkWinner
\* finds a mark, draw exactly when the board is full without a winner,
\* playing otherwise.
C4_StatusFollowsBoard ==
    LET board == gameState.board
    IN /\ gameState.gameStatus = "won" <=> checkWinner(board) \in Marks
       /\ gameState.gameStatus = "draw" <=>
             (~HasEmpty(board) /\ checkWinner(board) = Null)
       /\ gameState.gameStatus = "playing" <=>
             (HasEmpty(board) /\ checkWinner(board) = Null)

\* a ninth move that completed a line: won, not drawn
C4_Witness ==
    /\ ~HasEmpty(gameState.board)
    /\ gameState.gameStatus = "won"

\* C5: within a game the k-th accepted move places X when k is odd and O
\* when k is even, by clicks and by the timeout alike.
C5_MarksAlternate ==
    [][gameState'.board # gameState.board =>
          \A index \in Cells :
             (gameState.board[index] = Null /\ gameState'.board[index] # Null)
             => gameState'.board[index] =
                   (IF MarkCount(gameState.board) % 2 = 0 THEN "X" ELSE "O")]_vars

\* the fourth move of a game against the computer, placed by the timeout
C5_Witness ==
    /\ timerEvent = "fired"
    /\ gameState.gameMode = "computer"
    /\ MarkCount(gameState.board) = 4
    /\ gameState.board[computerMove] = "O"

\* C6: a pending timeout always belongs to the current board of a mounted,
\* playing session in computer mode with O to move (anything else cancelled
\* it), and a timeout that fires places O on an empty cell of that board.
PendingIsCurrent ==
    \A closure \in timer :
        /\ mounted
        /\ closure.board = gameState.board
        /\ gameState.gameStatus = "playing"
        /\ gameState.gameMode = "computer"
        /\ gameState.currentPlayer = "O"

FiredOnCurrent ==
    timerEvent' = "fired" =>
        /\ timer # {}
        /\ computerMove' \in Cells
        /\ Placed(computerMove', "O")

C6_StaleMoveCancelled == []PendingIsCurrent /\ [][FiredOnCurrent]_vars

\* a reset or a mode change cancelled a scheduled move
C6_Witness ==
    /\ timerEvent = "cancelled"
    /\ mounted
    /\ gameState.board = EmptyBoard

\* C7: a reset-score event zeroes the three counters and leaves board,
\* status, winner, turn and mode as they were, with or without a timeout
\* pending.
C7_ResetScoreFrame ==
    [][ResetScore =>
          /\ gameState'.score = ZeroScore
          /\ gameState'.board = gameState.board
          /\ gameState'.gameStatus = gameState.gameStatus
          /\ gameState'.winner = gameState.winner
          /\ gameState'.currentPlayer = gameState.currentPlayer
          /\ gameState'.gameMode = gameState.gameMode]_vars

\* the score was reset while a timeout was pending: the pending closure
\* still holds the score of before
C7_Witness ==
    /\ gameState.score = ZeroScore
    /\ \E closure \in timer : closure.score # ZeroScore

\* C8: a reset-board event yields the empty board, status playing, no
\* winner and X to move, and keeps score and mode.
C8_ResetGameFrame ==
    [][ResetGame =>
          /\ Cleared(gameState')
          /\ gameState'.score = gameState.score
          /\ gameState'.gameMode = gameState.gameMode]_vars

\* a cleared board in computer mode with a score kept and a scheduled move
\* cancelled
C8_Witness ==
    /\ timerEvent = "cancelled"
    /\ mounted
    /\ Cleared(gameState)
    /\ gameState.gameMode = "computer"
    /\ gameState.score # ZeroScore

\* C9: a set-mode event with mode m sets the mode to m, clears like
\* reset-board, keeps the score, and leaves no timeout pending for the
\* fresh board.
C9_SetModeFrame ==
    [][\A mode \in GameMode :
          SetGameMode(mode) =>
             /\ gameState'.gameMode = mode
             /\ Cleared(gameState')
             /\ gameState'.score = gameState.score
             /\ timer' = {}]_vars

\* the switch to two-player mode cancelled a scheduled computer move
C9_Witness ==
    /\ timerEvent = "cancelled"
    /\ mounted
    /\ gameState.gameMode = "player"
    /\ Cleared(gameState)

\* C10: on a board with an empty cell, whatever the random draw, the index
\* getComputerMove returns is in 0..8 and its cell is empty.
C10_MoveIsEmptyCell ==
    (computerMove # NoIndex /\ HasEmpty(gameState.board))
    => (computerMove \in Cells /\ gameState.board[computerMove] = Null)

\* the random fallback tier chose among the edges
C10_Witness ==
    /\ computerMove \in {1, 3, 5, 7}
    /\ gameState.board[computerMove] = Null
    /\ gameState.board[4] # Null
    /\ \A corner \in {0, 2, 6, 8} : gameState.board[corner] # Null

-----------------------------------------------------------------------------
\* Vocabulary of the strategy properties: the triples in the order the
\* specification fixes

ScanOrder ==
    << {0, 1, 2}, {3, 4, 5}, {6, 7, 8}, {0, 3, 6}, {1, 4, 7}, {2, 5, 8},
       {0, 4, 8}, {2, 4, 6} >>

\* triple k has two cells of mark and its third cell empty
Completable(board, mark, k) ==
    /\ Cardinality({i \in ScanOrder[k] : board[i] = mark}) = 2
    /\ Cardinality({i \in ScanOrder[k] : board[i] = Null}) = 1

CanComplete(board, mark) == \E k \in 1..Len(ScanOrder) : Completable(board, mark, k)

\* the empty cell of the first triple of the scan order that mark can complete
FirstCompletion(board, mark) ==
    LET k == CHOOSE j \in 1..Len(ScanOrder) :
                /\ Completable(board, mark, j)
                /\ \A h \in 1..(j - 1) : ~Completable(board, mark, h)
    IN CHOOSE i \in ScanOrder[k] : board[i] = Null

\* C11: when O can complete a triple, getComputerMove returns the empty cell
\* of the first such triple in scan order; otherwise, when X can complete a
\* triple, it returns the empty cell of the first such triple (a block).
C11_WinThenBlock ==
    computerMove # NoIndex =>
        /\ CanComplete(gameState.board, "O")
              => computerMove = FirstCompletion(gameState.board, "O")
        /\ (~CanComplete(gameState.board, "O") /\ CanComplete(gameState.board, "X"))
              => computerMove = FirstCompletion(gameState.board, "X")

\* X holds 0 and 1, cell 2 is empty, O has no win: the move is the block at 2
C11_Witness ==
    /\ gameState.board[0] = "X"
    /\ gameState.board[1] = "X"
    /\ gameState.board[2] = Null
    /\ ~CanComplete(gameState.board, "O")
    /\ computerMove = 2

\* neither the win tier nor the block tier applies
NoTierAbove(board) == ~CanComplete(board, "O") /\ ~CanComplete(board, "X")

EmptyCorners(board) == {i \in {0, 2, 6, 8} : board[i] = Null}

\* C17: on a board with an empty cell where neither O nor X can complete a
\* triple, getComputerMove returns 4 if cell 4 is empty; otherwise an empty
\* corner if there is one (never an edge); otherwise an empty cell.
C17_CenterCornerAny ==
    (computerMove # NoIndex /\ HasEmpty(gameState.board) /\ NoTierAbove(gameState.board))
    => IF gameState.board[4] = Null THEN computerMove = 4
       ELSE IF EmptyCorners(gameState.board) # {}
            THEN computerMove \in EmptyCorners(gameState.board)
            ELSE computerMove \in {i \in Cells : gameState.board[i] = Null}

\* the corner tier chose a corner although an edge was free as well
C17_Witness ==
    /\ NoTierAbove(gameState.board)
    /\ gameState.board[4] # Null
    /\ computerMove \in EmptyCorners(gameState.board)
    /\ \E edge \in {1, 3, 5, 7} : gameState.board[edge] = Null

\* triple k of the scan order is fully matched by a mark
FullyMatched(board, k) ==
    \E mark \in Marks : \A i \in ScanOrder[k] : board[i] = mark

\* C12: checkWinner returns none exactly when no triple is fully matched
\* (the empty board included); otherwise it returns the mark of the first
\* fully matched triple of the scan order, a mark that owns a complete row,
\* column or diagonal.
C12_FirstMatchedTriple ==
    gameState.winner # Undefined =>
        LET matched == {k \in 1..Len(ScanOrder) : FullyMatched(gameState.board, k)}
        IN IF matched = {}
           THEN gameState.winner = Null
           ELSE /\ gameState.winner \in Marks
                /\ HasLine(gameState.board, gameState.winner)
                /\ LET first == CHOOSE k \in matched : \A h \in matched : k <= h
                   IN \A i \in ScanOrder[first] : gameState.board[i] = gameState.winner

\* two triples of different marks are matched: the first in order decides
C12_Witness ==
    /\ HasLine(gameState.board, "X")
    /\ HasLine(gameState.board, "O")
    /\ FullyMatched(gameState.board, 1)
    /\ gameState.winner = gameState.board[0]

\* C13: the board always has the nine cells 0..8, and while the component
\* is mounted every event leaves each mark on its cell, except a reset-board
\* or set-mode event, which clears the whole board.
NineCells == DOMAIN gameState.board = Cells

MarksKept ==
    (gameState'.board # gameState.board /\ mounted') =>
        \/ \A i \in Cells :
              gameState.board[i] # Null => gameState'.board[i] = gameState.board[i]
        \/ /\ gameState'.board = EmptyBoard
           /\ ResetGame \/ \E mode \in GameMode : SetGameMode(mode)

C13_MarksStay == []NineCells /\ [][MarksKept]_vars

\* nine marks placed one after the other, none overwritten: a drawn board
C13_Witness ==
    /\ mounted
    /\ MarkCount(gameState.board) = 9
    /\ gameState.gameStatus = "draw"

FullLines(board) == {l \in Lines : \E mark \in Marks : \A i \in l : board[i] = mark}

\* C14 (as stated): every reachable board contains at most one fully matched
\* triple.
C14_AtMostOneTriple == Cardinality(FullLines(gameState.board)) <= 1

\* C14 (amended): the fully matched triples of a reachable board all belong
\* to one mark, and there are at most two of them, which then share the cell
\* of the move that completed both.
C14_OneWinnerSharedCell ==
    /\ ~(HasLine(gameState.board, "X") /\ HasLine(gameState.board, "O"))
    /\ Cardinality(FullLines(gameState.board)) <= 2
    /\ \A l1, l2 \in FullLines(gameState.board) : l1 # l2 => l1 \cap l2 # {}

\* one move completed two triples at once
C14_Witness ==
    /\ Cardinality(FullLines(gameState.board)) = 2
    /\ gameState.gameStatus = "won"

\* C15: while the component is mounted the score changes only by +1 on the
\* winner's counter at a transition to won, by +1 on draws at a transition
\* to draw, and to all-zero at a reset-score event; so a move that leaves
\* the session playing changes no counter and a reset score stays zero
\* until the next game ends.
C15_ScoreChanges ==
    [][(gameState'.score # gameState.score /\ mounted') =>
          \/ /\ gameState.gameStatus = "playing"
             /\ gameState'.gameStatus = "won"
             /\ gameState'.winner \in Marks
             /\ gameState'.score = Bump(gameState.score, gameState'.winner)
          \/ /\ gameState.gameStatus = "playing"
             /\ gameState'.gameStatus = "draw"
             /\ gameState'.score = [gameState.score EXCEPT !.draws = @ + 1]
          \/ /\ ResetScore
             /\ gameState'.score = ZeroScore]_vars

\* C16: an accepted move flips the turn only when the session stays
\* playing; when the move ends the game (won or draw) the turn is still the
\* mark that made the move.
C16_TurnKeptAtEnd ==
    [][gameState'.board # gameState.board =>
          \A index \in Cells, mark \in Marks :
             Placed(index, mark) =>
                IF gameState'.gameStatus = "playing"
                THEN gameState'.currentPlayer # mark
                ELSE gameState'.currentPlayer = mark]_vars

\* C20: in computer mode O is placed only by the timeout's callback, at an
\* index getComputerMove selects for the current board, and a click while O
\* is to move and the timeout is pending places no mark and leaves the
\* timeout pending.
C20_OnlyTimerPlacesO ==
    [][(gameState.gameMode = "computer" /\ mounted') =>
          \A index \in Cells :
             /\ Placed(index, "O") =>
                   /\ timerEvent' = "fired"
                   /\ computerMove' = index
                   /\ \E r \in 0..(RandDen - 1) :
                         index = getComputerMove(gameState.board, r)
             /\ (effectCondition(gameState) /\ timer # {} /\ CellClick(index)) =>
                   /\ gameState'.board = gameState.board
                   /\ timer' = timer]_vars

\* C18: in computer mode, whenever the mounted session is playing with O to
\* move, a timeout is pending; and since a pending timeout fires unless it
\* is cancelled, the session leaves that situation, by the timeout's move or
\* by a click, reset or mode change.  (The callback is not enabled where its
\* move would raise a counter above MaxScore.)
OToMove == mounted /\ effectCondition(gameState)

C18_ComputerMoves ==
    /\ [](OToMove => timer # {})
    /\ (OToMove /\ CanFire) ~> ~OToMove

\* the timeout placed the computer's third mark and the game goes on
C18_Witness ==
    /\ timerEvent = "fired"
    /\ gameState.gameMode = "computer"
    /\ gameState.gameStatus = "playing"
    /\ gameState.currentPlayer = "X"
    /\ MarkCount(gameState.board) = 6

\* C19: the computer's strategy can be beaten.  Against the line of play of
\* SpecFork (corner, opposite corner, then complete or block) every game the
\* computer plays to its end is won by X, whatever the random draws, and the
\* human always has a move of that line; the witness is such a finished game.
C19_ForkBeatsComputer ==
    /\ HumanToMove => humanMoves(gameState.board) # {}
    /\ (gameState.gameMode = "computer" /\ gameState.gameStatus # "playing") =>
          /\ gameState.gameStatus = "won"
          /\ gameState.winner = "X"

\* X has won in computer mode with the last mark of the fork: four X against
\* three O, the O placed by the timeout
C19_Witness ==
    /\ gameState.gameMode = "computer"
    /\ gameState.gameStatus = "won"
    /\ gameState.winner = "X"
    /\ checkWinner(gameState.board) = "X"
    /\ Cardinality({c \in Cells : gameState.board[c] = "X"}) = 4
    /\ Cardinality({c \in Cells : gameState.board[c] = "O"}) = 3
    /\ gameState.board[4] = "O"

====
